---- MODULE Spec2Model ----
(***************************************************************************)
(* Model of src/src/docSearchLib.ts: the text normalizer, the chunker, the *)
(* index loader and the scorer.                                            *)
(*                                                                         *)
(* A JavaScript string is modelled as the sequence of its UTF-16 code      *)
(* units (natural numbers): "Hi" is <<72, 105>>.  Every string operation   *)
(* of the source is an operator over such sequences, computed the way the  *)
(* JavaScript built-in computes it, for the code units of ModelChars.      *)
(***************************************************************************)
EXTENDS Integers, Sequences, FiniteSets, TLC

(***************************************************************************)
(* Generic sequence helpers.                                               *)
(***************************************************************************)
RECURSIVE Flatten(_)
\* Concatenation of a sequence of strings.
Flatten(ss) ==
    IF ss = <<>> THEN <<>> ELSE Head(ss) \o Flatten(Tail(ss))

\* Array.prototype.filter with the predicate given as the set of kept values.
RECURSIVE FilterSeq(_, _)
FilterSeq(ss, keep) ==
    IF ss = <<>> THEN <<>>
    ELSE (IF Head(ss) \in keep THEN <<Head(ss)>> ELSE <<>>) \o FilterSeq(Tail(ss), keep)

\* The elements of a sequence, as a set (new Set(array)).
SetOf(ss) == {ss[i] : i \in 1..Len(ss)}

\* Array.prototype.slice(from) with a 0-based start.
SliceFrom(ss, from) == SubSeq(ss, from + 1, Len(ss))

(***************************************************************************)
(* Character classes of the regular expressions of the source, for the     *)
(* code units the model uses.                                              *)
(***************************************************************************)
\* \s of a JavaScript regular expression, which is also what trim() strips.
WhiteSpace == {9, 10, 11, 12, 13, 32, 160, 5760, 8232, 8233, 8239, 8287, 12288, 65279}
                  \cup (8192..8202)

\* \p{L}: A-Z, a-z, E and e with acute (201, 233), and the Greek capital sigma (931),
\* small final sigma (962) and small sigma (963).
Letters == (65..90) \cup (97..122) \cup {201, 233, 931, 962, 963}

\* \p{N}: the ASCII digits.
Numbers == 48..57

\* [\u0300-\u036f]: the block Combining Diacritical Marks.
CombiningMarks == 768..879

\* The code units the operators below are defined for: ASCII, the no-break space,
\* the letters above, the combining marks and the trade mark sign (8482).
ModelChars == (0..127) \cup {160, 8482} \cup Letters \cup CombiningMarks

(***************************************************************************)
(* String.prototype built-ins.                                             *)
(***************************************************************************)
\* Cased letters (Unicode property Cased) among ModelChars.
Cased == Letters

\* Case-ignorable characters (Unicode property Case_Ignorable) among ModelChars:
\* ' . : ^ ` and the combining marks.
CaseIgnorable == {39, 46, 58, 94, 96} \cup CombiningMarks

\* Final_Sigma of the Unicode SpecialCasing rules: position i of s is preceded by a
\* cased letter and not followed by one, case-ignorable characters skipped.
FinalSigma(s, i) ==
    /\ \E j \in 1..(i - 1) :
          /\ s[j] \in Cased
          /\ \A k \in (j + 1)..(i - 1) : s[k] \in CaseIgnorable
    /\ ~ \E j \in (i + 1)..Len(s) :
          /\ s[j] \in Cased
          /\ \A k \in (i + 1)..(j - 1) : s[k] \in CaseIgnorable

\* The lowercase mapping of one code unit.
LowerChar(c) ==
    IF c \in 65..90 THEN c + 32
    ELSE IF c = 201 THEN 233
    ELSE IF c = 931 THEN 963
    ELSE c

\* String.prototype.toLowerCase.
toLowerCase(s) ==
    [i \in 1..Len(s) |->
        IF s[i] = 931 /\ FinalSigma(s, i) THEN 962 ELSE LowerChar(s[i])]

\* The compatibility decomposition of one code unit.
DecomposeChar(c) ==
    CASE c = 233 -> <<101, 769>>      \* e with acute
      [] c = 201 -> <<69, 769>>       \* E with acute
      [] c = 160 -> <<32>>            \* no-break space
      [] c = 8482 -> <<84, 77>>       \* trade mark sign -> "TM"
      [] c = 832 -> <<768>>           \* combining grave tone mark
      [] c = 833 -> <<769>>           \* combining acute tone mark
      [] c = 835 -> <<787>>           \* combining Greek koronis
      [] c = 836 -> <<776, 769>>      \* combining Greek dialytika tonos
      [] OTHER -> <<c>>

\* The canonical combining class of one code unit of ModelChars: 0 outside the
\* combining marks and for the combining grapheme joiner (847).
CombiningClass(c) ==
    IF c \notin CombiningMarks \/ c = 847 THEN 0
    ELSE IF c \in (820..824) THEN 1
    ELSE IF c \in {801, 802, 807, 808} THEN 202
    ELSE IF c = 795 THEN 216
    ELSE IF c \in (790..793) \cup (796..800) \cup (803..806) \cup (809..819)
                  \cup (825..828) \cup (839..841) \cup {845, 846}
                  \cup (851..854) \cup {857, 858} THEN 220
    ELSE IF c \in {789, 794, 856} THEN 232
    ELSE IF c \in {860, 863, 866} THEN 233
    ELSE IF c \in {861, 862, 864, 865} THEN 234
    ELSE IF c = 837 THEN 240
    ELSE 230

\* One step of the canonical ordering: c is put after the code units of out,
\* before the trailing marks whose combining class is greater than its own.
RECURSIVE InsertByClass(_, _)
InsertByClass(out, c) ==
    IF out = <<>> THEN <<c>>
    ELSE LET last == out[Len(out)]
         IN  IF CombiningClass(c) = 0 \/ CombiningClass(last) <= CombiningClass(c)
             THEN Append(out, c)
             ELSE Append(InsertByClass(SubSeq(out, 1, Len(out) - 1), c), last)

RECURSIVE SortByClass(_)
SortByClass(d) ==
    IF d = <<>> THEN <<>>
    ELSE InsertByClass(SortByClass(SubSeq(d, 1, Len(d) - 1)), d[Len(d)])

\* The canonical ordering of a decomposed string: within each run of code units
\* of non-zero combining class, a stable sort by combining class.
CanonicalOrder(d) ==
    IF \A i \in 1..(Len(d) - 1) :
          CombiningClass(d[i + 1]) = 0 \/ CombiningClass(d[i]) <= CombiningClass(d[i + 1])
    THEN d
    ELSE SortByClass(d)

\* String.prototype.normalize('NFKD').
NFKD(s) == CanonicalOrder(Flatten([i \in 1..Len(s) |-> DecomposeChar(s[i])]))

\* s.replace(/[...]/g, '') for a character class: the characters of the class removed.
RemoveChars(s, class) == Flatten([i \in 1..Len(s) |-> IF s[i] \in class THEN <<>> ELSE <<s[i]>>])

\* s.replace(/[^...]+/g, rep) for a negated class: every maximal run of characters
\* outside keep replaced by rep.
ReplaceRunsOutside(s, keep, rep) ==
    Flatten([i \in 1..Len(s) |->
        IF s[i] \in keep THEN <<s[i]>>
        ELSE IF i > 1 /\ s[i - 1] \notin keep THEN <<>>
        ELSE rep])

\* s.replace(/[...]+/g, rep) for a class: every maximal run of characters of the class
\* replaced by rep.
ReplaceRunsOf(s, class, rep) ==
    Flatten([i \in 1..Len(s) |->
        IF s[i] \notin class THEN <<s[i]>>
        ELSE IF i > 1 /\ s[i - 1] \in class THEN <<>>
        ELSE rep])

\* String.prototype.trim.
trim(s) ==
    LET solid == {i \in 1..Len(s) : s[i] \notin WhiteSpace}
    IN  IF solid = {} THEN <<>>
        ELSE SubSeq(s, CHOOSE i \in solid : \A j \in solid : i <= j,
                       CHOOSE i \in solid : \A j \in solid : i >= j)

\* String.prototype.split(sep) for a one-character separator.
RECURSIVE split(_, _)
split(s, sep) ==
    LET hits == {i \in 1..Len(s) : s[i] = sep}
    IN  IF hits = {} THEN <<s>>
        ELSE LET i == CHOOSE h \in hits : \A g \in hits : h <= g
             IN  <<SubSeq(s, 1, i - 1)>> \o split(SubSeq(s, i + 1, Len(s)), sep)

\* String.prototype.includes.
includes(hay, needle) ==
    \E i \in 0..(Len(hay) - Len(needle)) : SubSeq(hay, i + 1, i + Len(needle)) = needle

\* Array.prototype.join.
RECURSIVE join(_, _)
join(ss, sep) ==
    IF ss = <<>> THEN <<>>
    ELSE IF Len(ss) = 1 THEN ss[1]
    ELSE ss[1] \o sep \o join(Tail(ss), sep)

(***************************************************************************)
(* Normalization / tokenization.                                           *)
(***************************************************************************)
normalizeForSearch(input) ==
    trim(
      ReplaceRunsOf(
        ReplaceRunsOutside(
          RemoveChars(NFKD(toLowerCase(input)), CombiningMarks),
          Letters \cup Numbers \cup WhiteSpace, <<32>>),
        WhiteSpace, <<32>>))

\* tokenize keeping the one-character tokens.
tokenizeKeepingShort(input) ==
    LET norm == normalizeForSearch(input)
        parts == split(norm, 32)
    IN  FilterSeq(parts, {t \in SetOf(parts) : Len(t) >= 1})

tokenize(input) ==
    LET norm == normalizeForSearch(input)
        parts == split(norm, 32)
    IN  FilterSeq(parts, {t \in SetOf(parts) : Len(t) >= 2})

(***************************************************************************)
(* Hashing and paths.                                                      *)
(***************************************************************************)
\* The first 16 hex digits of the SHA-1 digest of a message.  The digest is not
\* computed: it is represented by the message it is the digest of, so that equal
\* messages have equal digests and distinct messages are taken to have distinct ones.
Sha1Hex16(message) == [sha1 |-> message]

stableId(parts) == Sha1Hex16(join(parts, <<124>>))

\* path.basename for a POSIX path that does not end with '/'.
basename(p) ==
    LET slashes == {i \in 1..Len(p) : p[i] = 47}
    IN  IF slashes = {} THEN p
        ELSE SubSeq(p, (CHOOSE i \in slashes : \A j \in slashes : i >= j) + 1, Len(p))

\* The segments of path.normalize, '.' and empty ones dropped: each '..' removes
\* the segment before it, is dropped at the root of an absolute path, and is kept
\* at the start of a relative one.
RECURSIVE ResolveSegments(_, _, _)
ResolveSegments(segs, kept, isAbsolute) ==
    IF segs = <<>> THEN kept
    ELSE LET seg == Head(segs)
             rest == Tail(segs)
         IN  IF seg = <<>> \/ seg = <<46>>
             THEN ResolveSegments(rest, kept, isAbsolute)
             ELSE IF seg = <<46, 46>>
             THEN IF kept # <<>> /\ kept[Len(kept)] # <<46, 46>>
                  THEN ResolveSegments(rest, SubSeq(kept, 1, Len(kept) - 1), isAbsolute)
                  ELSE IF isAbsolute
                  THEN ResolveSegments(rest, kept, isAbsolute)
                  ELSE ResolveSegments(rest, Append(kept, seg), isAbsolute)
             ELSE ResolveSegments(rest, Append(kept, seg), isAbsolute)

\* path.normalize for a POSIX path.
pathNormalize(p) ==
    IF p = <<>> THEN <<46>>
    ELSE LET isAbsolute == p[1] = 47
             trailingSeparator == p[Len(p)] = 47
             resolved == join(ResolveSegments(split(p, 47), <<>>, isAbsolute), <<47>>)
         IN  IF resolved = <<>>
             THEN IF isAbsolute THEN <<47>>
                  ELSE IF trailingSeparator THEN <<46, 47>> ELSE <<46>>
             ELSE (IF isAbsolute THEN <<47>> ELSE <<>>) \o resolved
                  \o (IF trailingSeparator THEN <<47>> ELSE <<>>)

\* path.join(folderPath, file): the non-empty arguments joined by '/', normalized.
pathJoin(folderPath, file) ==
    IF folderPath = <<>> /\ file = <<>> THEN <<46>>
    ELSE IF folderPath = <<>> THEN pathNormalize(file)
    ELSE IF file = <<>> THEN pathNormalize(folderPath)
    ELSE pathNormalize(folderPath \o <<47>> \o file)

(***************************************************************************)
(* Parsing & chunking.                                                     *)
(***************************************************************************)
\* maxChunkChars = 1800 when the option is absent.
DefaultMaxChunkChars == 1800

\* txt.replace(/\r\n/g, '\n').
ReplaceCRLF(s) ==
    Flatten([i \in 1..Len(s) |->
        IF s[i] = 13 /\ i < Len(s) /\ s[i + 1] = 10 THEN <<>> ELSE <<s[i]>>])

\* Array.prototype.map(trim).
TrimAll(ss) == [i \in 1..Len(ss) |-> trim(ss[i])]

\* A split at every line feed: every line its own paragraph.
SplitEveryLine(s) == split(s, 10)

\* body.split(/\n\s*\n/g): the separators are the leftmost, longest stretches that
\* start and end with a line feed and hold only white space.
RECURSIVE SplitBlankLines(_)
SplitBlankLines(s) ==
    LET closes(i) == {k \in (i + 1)..Len(s) :
                         s[k] = 10 /\ \A m \in (i + 1)..(k - 1) : s[m] \in WhiteSpace}
        starts == {i \in 1..Len(s) : s[i] = 10 /\ closes(i) # {}}
    IN  IF starts = {} THEN <<s>>
        ELSE LET i == CHOOSE x \in starts : \A y \in starts : x <= y
                 e == CHOOSE x \in closes(i) : \A y \in closes(i) : x >= y
             IN  <<SubSeq(s, 1, i - 1)>> \o SplitBlankLines(SubSeq(s, e + 1, Len(s)))

\* p.replace(/\s*\n\s*/g, ' '): every maximal run of white space that holds a line
\* feed becomes one space.
CollapseNewlines(p) ==
    LET runStart(i) == CHOOSE a \in 1..i :
                          /\ \A m \in a..i : p[m] \in WhiteSpace
                          /\ (a = 1 \/ p[a - 1] \notin WhiteSpace)
        runEnd(i) == CHOOSE b \in i..Len(p) :
                          /\ \A m \in i..b : p[m] \in WhiteSpace
                          /\ (b = Len(p) \/ p[b + 1] \notin WhiteSpace)
    IN  Flatten([i \in 1..Len(p) |->
            IF p[i] \notin WhiteSpace THEN <<p[i]>>
            ELSE IF \A m \in runStart(i)..runEnd(i) : p[m] # 10 THEN <<p[i]>>
            ELSE IF i = runStart(i) THEN <<32>>
            ELSE <<>>])

\* p.split(/(?<=[.!?])\s+/): the separators are the runs of white space that
\* directly follow '.', '!' or '?'.
RECURSIVE SplitSentences(_)
SplitSentences(p) ==
    LET starts == {i \in 2..Len(p) : p[i] \in WhiteSpace /\ p[i - 1] \in {46, 33, 63}}
    IN  IF starts = {} THEN <<p>>
        ELSE LET i == CHOOSE x \in starts : \A y \in starts : x <= y
                 ends == {b \in i..Len(p) :
                             /\ \A m \in i..b : p[m] \in WhiteSpace
                             /\ (b = Len(p) \/ p[b + 1] \notin WhiteSpace)}
                 e == CHOOSE b \in ends : TRUE
             IN  <<SubSeq(p, 1, i - 1)>> \o SplitSentences(SubSeq(p, e + 1, Len(p)))

paragraphPassages(body) ==
    LET paras == TrimAll(SplitBlankLines(body))
        kept == FilterSeq(paras, {q \in SetOf(paras) : q # <<>>})
    IN  [i \in 1..Len(kept) |-> CollapseNewlines(kept[i])]

\* "Service: ", "Price: ", "Notes: "
ServiceLabel == <<83, 101, 114, 118, 105, 99, 101, 58, 32>>
PriceLabel == <<80, 114, 105, 99, 101, 58, 32>>
NotesLabel == <<78, 111, 116, 101, 115, 58, 32>>

\* A row's passage without its notes.
RowToPassageWithoutNotes(row) ==
    LET cols == TrimAll(split(row, 124))
        col(n) == IF n <= Len(cols) THEN cols[n] ELSE <<>>
        parts == (IF col(1) # <<>> THEN <<ServiceLabel \o col(1) \o <<46>>>> ELSE <<>>)
              \o (IF col(2) # <<>> THEN <<PriceLabel \o col(2) \o <<46>>>> ELSE <<>>)
    IN  join(parts, <<32>>)

\* One row of a pipe table as a sentence-like passage.
RowToPassage(row) ==
    LET cols == TrimAll(split(row, 124))
        col(n) == IF n <= Len(cols) THEN cols[n] ELSE <<>>
        parts == (IF col(1) # <<>> THEN <<ServiceLabel \o col(1) \o <<46>>>> ELSE <<>>)
              \o (IF col(2) # <<>> THEN <<PriceLabel \o col(2) \o <<46>>>> ELSE <<>>)
              \o (IF col(3) # <<>> THEN <<NotesLabel \o col(3) \o <<46>>>> ELSE <<>>)
    IN  join(parts, <<32>>)

pipeTableToPassages(body) ==
    LET trimmed == TrimAll(split(body, 10))
        lines == FilterSeq(trimmed, {l \in SetOf(trimmed) : Len(l) > 0 /\ l[1] # 35})
        rows == FilterSeq(lines, {l \in SetOf(lines) : 124 \in SetOf(l)})
    IN  [i \in 1..Len(rows) |-> RowToPassage(rows[i])]

\* A loop that puts all the sentences of a long passage back into one passage.
PackSentencesIntoOne(splits, buf, maxChunkChars) == <<join(splits, <<32>>)>>

\* The loop without the flush of the buffer after the last sentence.
RECURSIVE PackSentencesWithoutLastFlush(_, _, _)
PackSentencesWithoutLastFlush(splits, buf, maxChunkChars) ==
    IF splits = <<>> THEN <<>>
    ELSE LET s == Head(splits)
         IN  IF Len(trim(buf \o <<32>> \o s)) <= maxChunkChars
             THEN PackSentencesWithoutLastFlush(Tail(splits),
                                (IF buf # <<>> THEN buf \o <<32>> ELSE <<>>) \o s,
                                maxChunkChars)
             ELSE (IF buf # <<>> THEN <<trim(buf)>> ELSE <<>>)
                  \o PackSentencesWithoutLastFlush(Tail(splits), s, maxChunkChars)

\* The loop over the sentences of one long passage: buf is the buffer, the result is
\* the passages pushed, the last flush included.
RECURSIVE PackSentences(_, _, _)
PackSentences(splits, buf, maxChunkChars) ==
    IF splits = <<>> THEN (IF buf # <<>> THEN <<trim(buf)>> ELSE <<>>)
    ELSE LET s == Head(splits)
         IN  IF Len(trim(buf \o <<32>> \o s)) <= maxChunkChars
             THEN PackSentences(Tail(splits),
                                (IF buf # <<>> THEN buf \o <<32>> ELSE <<>>) \o s,
                                maxChunkChars)
             ELSE (IF buf # <<>> THEN <<trim(buf)>> ELSE <<>>)
                  \o PackSentences(Tail(splits), s, maxChunkChars)

\* Enforce maxChunkChars by splitting long passages.
EnforceMaxChunkChars(rawPassages, maxChunkChars) ==
    Flatten([i \in 1..Len(rawPassages) |->
        IF Len(rawPassages[i]) <= maxChunkChars THEN <<rawPassages[i]>>
        ELSE PackSentences(SplitSentences(rawPassages[i]), <<>>, maxChunkChars)])

\* The lines of the text, and the 1-based positions of its non-blank lines.
TxtLines(txt) == split(ReplaceCRLF(txt), 10)
NonBlank(lines) == {i \in 1..Len(lines) : trim(lines[i]) # <<>>}

\* The first non-empty line, or the file's base name.
TitleOf(txt, sourceFile) ==
    LET lines == TxtLines(txt)
    IN  IF NonBlank(lines) = {} THEN basename(sourceFile)
        ELSE trim(lines[CHOOSE i \in NonBlank(lines) : \A j \in NonBlank(lines) : i <= j])

\* A body that starts at the title line: startIdx = i in place of i + 1.
BodyFromTitleLine(txt) ==
    LET lines == TxtLines(txt)
        startIdx == IF NonBlank(lines) = {} THEN 0
                    ELSE (CHOOSE i \in NonBlank(lines) : \A j \in NonBlank(lines) : i <= j) - 1
    IN  trim(join(SliceFrom(lines, startIdx), <<10>>))

\* The lines after the title line, joined and trimmed.
BodyOf(txt) ==
    LET lines == TxtLines(txt)
        startIdx == IF NonBlank(lines) = {} THEN 0
                    ELSE CHOOSE i \in NonBlank(lines) : \A j \in NonBlank(lines) : i <= j
    IN  trim(join(SliceFrom(lines, startIdx), <<10>>))

\* A detection that looks at the first line of the body only.
hasPipeTableInFirstLine(body) == 124 \in SetOf(split(body, 10)[1])

hasPipeTable(body) ==
    \E l \in SetOf(split(body, 10)) : 124 \in SetOf(l)

rawPassagesOf(body) ==
    IF hasPipeTable(body) THEN pipeTableToPassages(body) ELSE paragraphPassages(body)

\* `${docHash}#${idx}`: the digest is 16 hex digits, so the string is kept as the
\* pair of its two parts.
ChunkIdOf(docHash, idx) == <<docHash, idx>>

\* const { tenantId, sourceFile, maxChunkChars = 1800 } = opts.
MaxChunkCharsOf(opts) ==
    IF "maxChunkChars" \in DOMAIN opts THEN opts.maxChunkChars ELSE DefaultMaxChunkChars

\* A filter that keeps every chunk.
KeepAllChunks(mapped) == mapped

\* .filter((c) => c.text.length > 0)
DropEmptyChunks(mapped) == FilterSeq(mapped, {c \in SetOf(mapped) : Len(c.text) > 0})

\* opts is [tenantId, sourceFile] or [tenantId, sourceFile, maxChunkChars].
parseTxtToChunks(txt, opts) ==
    LET title == TitleOf(txt, opts.sourceFile)
        passages == EnforceMaxChunkChars(rawPassagesOf(BodyOf(txt)), MaxChunkCharsOf(opts))
        docId == opts.tenantId \o <<58>> \o basename(opts.sourceFile)
        docHash == stableId(<<opts.tenantId, opts.sourceFile, title>>)
        mapped == [i \in 1..Len(passages) |->
                     [tenantId |-> opts.tenantId,
                      docId |-> docId,
                      chunkId |-> ChunkIdOf(docHash, i - 1),
                      sourceFile |-> basename(opts.sourceFile),
                      title |-> title,
                      text |-> trim(passages[i]),
                      tokens |-> tokenize(passages[i])]]
    IN  DropEmptyChunks(mapped)

(***************************************************************************)
(* Index loading.                                                          *)
(***************************************************************************)
\* d.name.toLowerCase().endsWith('.txt')
EndsWithTxt(name) ==
    LET low == toLowerCase(name)
    IN  Len(low) >= 4 /\ SubSeq(low, Len(low) - 3, Len(low)) = <<46, 116, 120, 116>>

\* The names of the .txt files of a directory listing, in listing order.  A
\* listing is a sequence of entries [name, isFile, content].
TxtFiles(listing) ==
    LET kept == FilterSeq(listing, {d \in SetOf(listing) : d.isFile /\ EndsWithTxt(d.name)})
    IN  [i \in 1..Len(kept) |-> kept[i].name]

\* fs.readFileSync(full, 'utf8') for a file of the listing.
ReadFile(listing, name) ==
    (CHOOSE d \in SetOf(listing) : d.name = name).content

\* params is [tenantId, folderPath]; listing is what readdirSync returns for it.
loadTenantTxtKnowledge(params, listing) ==
    LET files == TxtFiles(listing)
    IN  [tenantId |-> params.tenantId,
         chunks |-> Flatten([i \in 1..Len(files) |->
                       parseTxtToChunks(ReadFile(listing, files[i]),
                                        [tenantId |-> params.tenantId,
                                         sourceFile |-> pathJoin(params.folderPath, files[i])])])]

\* No read fails.
NoFailure == -1

\* The listing up to the entry before the file of the given name.
ListingBefore(listing, name) ==
    SubSeq(listing, 1, (CHOOSE i \in 1..Len(listing) : listing[i].name = name) - 1)

\* A loader that stops at the file it cannot read and returns the chunks it has.
loadKeepingChunksRead(params, listing, failAt) ==
    IF failAt = 0 THEN [threw |-> TRUE]
    ELSE IF failAt \in 1..Len(TxtFiles(listing))
    THEN [threw |-> FALSE,
          index |-> loadTenantTxtKnowledge(params,
                        ListingBefore(listing, TxtFiles(listing)[failAt]))]
    ELSE [threw |-> FALSE, index |-> loadTenantTxtKnowledge(params, listing)]

\* loadTenantTxtKnowledge with the reads that can fail: failAt = 0 when readdirSync
\* throws, k when readFileSync throws for the k-th .txt file, NoFailure when no read
\* fails.  Nothing catches the exception: the chunks pushed so far are a local of the
\* call and are lost with it.
loadOrThrow(params, listing, failAt) ==
    IF failAt = 0 THEN [threw |-> TRUE]
    ELSE IF failAt \in 1..Len(TxtFiles(listing)) THEN [threw |-> TRUE]
    ELSE [threw |-> FALSE, index |-> loadTenantTxtKnowledge(params, listing)]

(***************************************************************************)
(* Search.                                                                 *)
(***************************************************************************)
\* topK = 3 when the parameter is absent.
DefaultTopK == 3

TopKOf(params) == IF "topK" \in DOMAIN params THEN params.topK ELSE DefaultTopK

\* for (const t of qTokens) if (set.has(t)) score += weight
OverlapScore(qTokens, tokenSet, weight) ==
    weight * Cardinality({i \in 1..Len(qTokens) : qTokens[i] \in tokenSet})

\* The score without the token overlap with the chunk.
ScoreChunkWithoutOverlap(c, qTokens, qNorm) ==
    OverlapScore(qTokens, SetOf(tokenize(c.title)), 1)
    + (IF includes(normalizeForSearch(c.text), qNorm) THEN 4 ELSE 0)

\* The score without the substring boost.
ScoreChunkWithoutBoost(c, qTokens, qNorm) ==
    OverlapScore(qTokens, SetOf(c.tokens), 2)
    + OverlapScore(qTokens, SetOf(tokenize(c.title)), 1)

\* The score the loop body gives chunk c.
ScoreChunk(c, qTokens, qNorm) ==
    OverlapScore(qTokens, SetOf(c.tokens), 2)
    + OverlapScore(qTokens, SetOf(tokenize(c.title)), 1)
    + (IF includes(normalizeForSearch(c.text), qNorm) THEN 4 ELSE 0)

\* The results pushed by the loop over index.chunks, in index order.
ScoredResults(chunks, qTokens, qNorm) ==
    Flatten([i \in 1..Len(chunks) |->
        LET c == chunks[i]
            score == ScoreChunk(c, qTokens, qNorm)
        IN  IF score > 0
            THEN <<[chunkId |-> c.chunkId, title |-> c.title, sourceFile |-> c.sourceFile,
                    text |-> c.text, score |-> score]>>
            ELSE <<>>])

\* A sort that leaves the results in index order.
SortByScoreNotSorting(results) == results

\* A sort that is not stable: an element goes ahead of the earlier elements of the
\* same score.
RECURSIVE SortByScoreUnstable(_)
SortByScoreUnstable(results) ==
    IF results = <<>> THEN <<>>
    ELSE LET n == Len(results)
             last == results[n]
             front == SortByScoreUnstable(SubSeq(results, 1, n - 1))
             ahead == {i \in 1..(n - 1) : front[i].score > last.score}
         IN  SubSeq(front, 1, Cardinality(ahead)) \o <<last>>
               \o SubSeq(front, Cardinality(ahead) + 1, n - 1)

\* A sort with the comparator the other way round: by ascending score.
RECURSIVE SortByScoreAscending(_)
SortByScoreAscending(results) ==
    IF results = <<>> THEN <<>>
    ELSE LET n == Len(results)
             last == results[n]
             front == SortByScoreAscending(SubSeq(results, 1, n - 1))
             ahead == {i \in 1..(n - 1) : front[i].score <= last.score}
         IN  SubSeq(front, 1, Cardinality(ahead)) \o <<last>>
               \o SubSeq(front, Cardinality(ahead) + 1, n - 1)

\* results.sort((a, b) => b.score - a.score): Array.prototype.sort is stable, so an
\* element stays behind the earlier elements it does not beat.
RECURSIVE SortByScore(_)
SortByScore(results) ==
    IF results = <<>> THEN <<>>
    ELSE LET n == Len(results)
             last == results[n]
             front == SortByScore(SubSeq(results, 1, n - 1))
             ahead == {i \in 1..(n - 1) : front[i].score >= last.score}
         IN  SubSeq(front, 1, Cardinality(ahead)) \o <<last>>
               \o SubSeq(front, Cardinality(ahead) + 1, n - 1)

\* Array.prototype.slice(0, end) for an integer end.
SliceTo(arr, end) ==
    LET stop == IF end < 0 THEN (IF Len(arr) + end < 0 THEN 0 ELSE Len(arr) + end)
                ELSE IF end > Len(arr) THEN Len(arr) ELSE end
    IN  SubSeq(arr, 1, stop)

\* searchDocs without its early return on an empty token list.
SearchRunNoEarlyReturn(params) ==
    LET qTokens == tokenize(params.query)
        qNorm == normalizeForSearch(params.query)
    IN  [returned |-> SliceTo(SortByScore(ScoredResults(params.index.chunks,
                                                        qTokens, qNorm)),
                              TopKOf(params)),
         scored |-> Len(params.index.chunks),
         index |-> params.index]

\* searchDocs sorting index.chunks itself by score before it collects the results.
SearchRunSortingChunks(params) ==
    LET qTokens == tokenize(params.query)
        qNorm == normalizeForSearch(params.query)
        chunks == params.index.chunks
        ranked == SortByScore([i \in 1..Len(chunks) |->
                                 [chunk |-> chunks[i],
                                  score |-> ScoreChunk(chunks[i], qTokens, qNorm)]])
        sorted == [i \in 1..Len(chunks) |-> ranked[i].chunk]
    IN  IF Len(qTokens) = 0
        THEN [returned |-> <<>>, scored |-> 0, index |-> params.index]
        ELSE [returned |-> SliceTo(ScoredResults(sorted, qTokens, qNorm), TopKOf(params)),
              scored |-> Len(chunks),
              index |-> [params.index EXCEPT !.chunks = sorted]]

\* One call of searchDocs, params being [index, query] or [index, query, topK]:
\* what it returns, how many chunks its loop has scored on the way, and the index
\* as the call leaves it: the call reads index.chunks and writes only to its own
\* results array.
SearchRun(params) ==
    LET qTokens == tokenize(params.query)
        qNorm == normalizeForSearch(params.query)
    IN  IF Len(qTokens) = 0
        THEN [returned |-> <<>>, scored |-> 0, index |-> params.index]
        ELSE [returned |-> SliceTo(SortByScore(ScoredResults(params.index.chunks,
                                                             qTokens, qNorm)),
                                   TopKOf(params)),
              scored |-> Len(params.index.chunks),
              index |-> params.index]

searchDocs(params) == SearchRun(params).returned

(***************************************************************************)
(* The agent process: the index is loaded once when the module is          *)
(* evaluated, then every searchDocs tool call searches it.                 *)
(***************************************************************************)
VARIABLES
    pc,          \* where the process is
    folder,      \* the knowledge folder: its directory listing, in listing order
    index,       \* agent.ts: const index
    call,        \* the query and topK of the last searchDocs call
    results,     \* what the last searchDocs call returned
    scored,      \* how many chunks the last searchDocs call scored
    rawText,     \* normalizer: the input string
    normText,    \* normalizer: normalizeForSearch(rawText)
    renormText,  \* normalizer: normalizeForSearch(normText)
    tokenList,   \* normalizer: tokenize(rawText)
    otherText,   \* normalizer: a second input string
    otherNorm,   \* normalizer: normalizeForSearch(otherText)
    document,    \* chunker: the lines of the text given to parseTxtToChunks
    options,     \* chunker: the options given to parseTxtToChunks
    chunkList,   \* chunker: the chunks parseTxtToChunks returned
    lastUserLang, \* agent.ts: let lastUserLang, the language of the last transcript
    toolQuery,   \* searchDocs tool: the query argument of the call
    userLang,    \* searchDocs tool: const userLang
    translated,  \* searchDocs tool: whether the call has called translateToEnglish
    payload      \* searchDocs tool: what the call returned, before JSON.stringify

agentVars == <<folder, index, call, results, scored>>
normVars == <<rawText, normText, renormText, tokenList, otherText, otherNorm>>
chunkerVars == <<document, options, chunkList>>
toolVars == <<lastUserLang, toolQuery, userLang, translated, payload>>
vars == <<pc, agentVars, normVars, chunkerVars, toolVars>>

\* agent.ts: const tenantId = 'autolife'
TenantId == <<97, 117, 116, 111, 108, 105, 102, 101>>
\* agent.ts: process.env.KNOWLEDGE_DIR ?? './knowledge/autolife', as path.join leaves it
FolderPath == <<107, 110, 111, 119, 108, 101, 100, 103, 101, 47, 97, 117, 116, 111, 108, 105, 102, 101>>

NoIndex == [tenantId |-> TenantId, chunks |-> <<>>]
NoCall == [query |-> <<>>]

AgentIdle ==
    /\ folder = <<>>
    /\ index = NoIndex
    /\ call = NoCall
    /\ results = <<>>
    /\ scored = 0

NormIdle ==
    /\ rawText = <<>>
    /\ normText = <<>>
    /\ renormText = <<>>
    /\ tokenList = <<>>
    /\ otherText = <<>>
    /\ otherNorm = <<>>

ChunkerIdle ==
    /\ document = <<>>
    /\ options = [tenantId |-> TenantId, sourceFile |-> <<>>]
    /\ chunkList = <<>>

\* The value of a Lang variable that has not been assigned.
Undefined == "undefined"

\* No call of the searchDocs tool has returned.
NoPayload == [found |-> FALSE, respondIn |-> <<>>, message |-> <<>>]

ToolIdle ==
    /\ lastUserLang = Undefined
    /\ toolQuery = <<>>
    /\ userLang = Undefined
    /\ translated = FALSE
    /\ payload = NoPayload

(***************************************************************************)
(* The folders and the queries of the model.                               *)
(***************************************************************************)
\* The most entries a folder holds.
MaxFiles == 2
\* The largest topK a call passes.
MaxTopK == 1

FileA == <<97, 46, 116, 120, 116>>        \* "a.txt"
FileB == <<97, 46, 116, 120, 116, 124, 46, 116, 120, 116>>        \* "a.txt|.txt"
FileC == <<66, 46, 84, 88, 84>>        \* "B.TXT"
FileD == <<99, 46, 109, 100>>        \* "c.md"
SubDir == <<100, 46, 116, 120, 116>>      \* "d.txt", a directory

\* "ab" / "ab cd" / "" / "cd ef" / "" / "ab cd": three paragraphs under the title ab
TextPlain == <<97, 98, 10, 97, 98, 32, 99, 100, 10, 10, 99, 100, 32, 101, 102, 10, 10, 97, 98, 32, 99, 100>>
\* ".txt|ab" / "ab cd": one paragraph under the title .txt|ab
TextPipeTitle == <<46, 116, 120, 116, 124, 97, 98, 10, 97, 98, 32, 99, 100>>
\* "ef" / "ab|1|cd" / "cd|2|ab": two rows under the title ef
TextTable == <<101, 102, 10, 97, 98, 124, 49, 124, 99, 100, 10, 99, 100, 124, 50, 124, 97, 98>>

DirEntries ==
    {[name |-> FileA, isFile |-> TRUE, content |-> t] :
        t \in {TextPlain, TextPipeTitle, TextTable}}
    \cup {[name |-> FileB, isFile |-> TRUE, content |-> t] : t \in {TextPlain, TextTable}}
    \cup {[name |-> FileC, isFile |-> TRUE, content |-> TextTable],
          [name |-> FileD, isFile |-> TRUE, content |-> TextPlain],
          [name |-> SubDir, isFile |-> FALSE, content |-> <<>>]}

\* The directory listings: no two entries of a folder have the same name.
Listings ==
    {l \in UNION {[1..n -> DirEntries] : n \in 0..MaxFiles} :
        \A i, j \in 1..Len(l) : i # j => l[i].name # l[j].name}

\* "", " a.", "ab ab", "ab cd", "cd AB", "zz ef"
Queries ==
    {<<>>,
     <<32, 97, 46>>,
     <<97, 98, 32, 97, 98>>,
     <<97, 98, 32, 99, 100>>,
     <<99, 100, 32, 65, 66>>,
     <<122, 122, 32, 101, 102>>}

\* The parameters of a call, the index apart: topK absent, or 0..MaxTopK.
Calls ==
    {[query |-> q] : q \in Queries}
    \cup {[query |-> q, topK |-> k] : q \in Queries, k \in 0..MaxTopK}

WithIndex(c) ==
    IF "topK" \in DOMAIN c
    THEN [index |-> index, query |-> c.query, topK |-> c.topK]
    ELSE [index |-> index, query |-> c.query]

Init ==
    /\ pc = "start"
    /\ folder \in Listings
    /\ index = NoIndex
    /\ call = NoCall
    /\ results = <<>>
    /\ scored = 0
    /\ NormIdle
    /\ ChunkerIdle
    /\ ToolIdle

\* agent.ts: const index = loadTenantTxtKnowledge({ tenantId, folderPath })
Load ==
    /\ pc = "start"
    /\ index' = loadOrThrow([tenantId |-> TenantId, folderPath |-> FolderPath],
                            folder, NoFailure).index
    /\ pc' = "ready"
    /\ UNCHANGED <<folder, call, results, scored, normVars, chunkerVars, toolVars>>

\* One call of searchDocs on the loaded index.
Search ==
    /\ pc \in {"ready", "searched"}
    /\ \E c \in Calls :
          LET run == SearchRun(WithIndex(c))
          IN  /\ call' = c
              /\ results' = run.returned
              /\ scored' = run.scored
              /\ index' = run.index
    /\ pc' = "searched"
    /\ UNCHANGED <<folder, normVars, chunkerVars, toolVars>>

\* agent.ts: the same statement when a read fails: the exception leaves the module's
\* evaluation, index is never initialized and no tool call is ever served.
LoadFails ==
    /\ pc = "start"
    /\ \E failAt \in 0..Len(TxtFiles(folder)) :
          LET out == loadOrThrow([tenantId |-> TenantId, folderPath |-> FolderPath],
                                 folder, failAt)
          IN  IF out.threw
              THEN pc' = "failed" /\ index' = index
              ELSE pc' = "ready" /\ index' = out.index
    /\ UNCHANGED <<folder, call, results, scored, normVars, chunkerVars, toolVars>>

Next == Load \/ LoadFails \/ Search

Spec == Init /\ [][Next]_vars

(***************************************************************************)
(* Properties of the search.                                               *)
(***************************************************************************)
\* The tokens and the normalized form of the last call's query.
CallTokens == tokenize(call.query)
CallNorm == normalizeForSearch(call.query)

\* The 1-based positions of the chunks of the index the last call's query matches.
Matching == {p \in 1..Len(index.chunks) : ScoreChunk(index.chunks[p], CallTokens, CallNorm) > 0}

\* C1: the results of searchDocs are sorted by non-increasing score, every score is
\* greater than 0, and there are at most topK results.
SearchSortedPositiveBounded ==
    pc = "searched" =>
        /\ \A i \in 1..(Len(results) - 1) : results[i].score >= results[i + 1].score
        /\ \A i \in 1..Len(results) : results[i].score > 0
        /\ Len(results) <= TopKOf(call)

\* A call that returned topK results of at least two different scores and left
\* matching chunks out.
SearchSortedWitness ==
    /\ pc = "searched"
    /\ Len(results) = TopKOf(call)
    /\ Len(results) >= 2
    /\ results[1].score > results[Len(results)].score
    /\ Cardinality(Matching) > Len(results)

\* C2: the chunkId values of one KnowledgeIndex are pairwise distinct.
ChunkIdsDistinct ==
    \A i, j \in 1..Len(index.chunks) :
        i # j => index.chunks[i].chunkId # index.chunks[j].chunkId

\* C6: a query that tokenizes to nothing gets the empty sequence, and no chunk is
\* scored for it.
EmptyQueryReturnsNothing ==
    (pc = "searched" /\ CallTokens = <<>>) => (results = <<>> /\ scored = 0)

\* A query without tokens that is not empty once normalized and occurs in the
\* normalized text of a chunk of the index.
EmptyQueryWitness ==
    /\ pc = "searched"
    /\ CallTokens = <<>>
    /\ CallNorm # <<>>
    /\ \E p \in 1..Len(index.chunks) :
          includes(normalizeForSearch(index.chunks[p].text), CallNorm)
    /\ results = <<>>

\* The score of the specification: set intersections of the query's tokens with
\* the chunk's tokens and with the title's tokens, and the substring boost.
SetScore(c, query) ==
    2 * Cardinality(SetOf(tokenize(query)) \cap SetOf(c.tokens))
    + Cardinality(SetOf(tokenize(query)) \cap SetOf(tokenize(c.title)))
    + (IF includes(normalizeForSearch(c.text), normalizeForSearch(query)) THEN 4 ELSE 0)

\* C7: the score of every result is 2 x |set(qTokens) \cap set(c.tokens)|
\* + |set(qTokens) \cap set(tokenize(c.title))| + the substring boost of 4, for the
\* chunk c it was made from: a query token counts once however often the query has it.
ScoreIsSetOverlap ==
    pc = "searched" =>
        \A i \in 1..Len(results) :
            \E p \in 1..Len(index.chunks) :
                /\ index.chunks[p].chunkId = results[i].chunkId
                /\ index.chunks[p].text = results[i].text
                /\ index.chunks[p].title = results[i].title
                /\ results[i].score = SetScore(index.chunks[p], call.query)

\* The result made from the chunk at position p of the index.
ResultOf(p) ==
    LET c == index.chunks[p]
    IN  [chunkId |-> c.chunkId, title |-> c.title, sourceFile |-> c.sourceFile,
         text |-> c.text, score |-> ScoreChunk(c, CallTokens, CallNorm)]

\* How many matching chunks rank ahead of the chunk at position p: those of a higher
\* score, and those of the same score that come earlier in the index.
RankedAhead(p) ==
    Cardinality({q \in Matching :
        \/ ResultOf(q).score > ResultOf(p).score
        \/ (ResultOf(q).score = ResultOf(p).score /\ q < p)})

\* C8: results of equal score keep the order of their chunks in index.chunks, and
\* truncation to topK drops the results that come last in that order: the k-th
\* result is made from the matching chunk that has k - 1 matching chunks ahead of it.
TiesKeepIndexOrder ==
    (pc = "searched" /\ CallTokens # <<>>) =>
        /\ Len(results) = (IF Cardinality(Matching) < TopKOf(call)
                           THEN Cardinality(Matching) ELSE TopKOf(call))
        /\ \A k \in 1..Len(results) :
              \E p \in Matching : RankedAhead(p) = k - 1 /\ results[k] = ResultOf(p)

\* A call that returned two results of one score made from different chunks, with
\* a third chunk of that score left out by the truncation.
TiesWitness ==
    /\ pc = "searched"
    /\ Len(results) >= 2
    /\ \E k \in 1..(Len(results) - 1) :
          /\ results[k].score = results[k + 1].score
          /\ results[k].chunkId # results[k + 1].chunkId
    /\ \E p \in Matching :
          /\ RankedAhead(p) >= Len(results)
          /\ ResultOf(p).score = results[Len(results)].score

(***************************************************************************)
(* The normalizer on its own: tokenize and normalizeForSearch applied to   *)
(* every string of NormChars up to MaxNormLen, and normalizeForSearch      *)
(* applied again to its own result.                                        *)
(***************************************************************************)
\* space, '.', '1', 'A', 'a', e with acute, combining acute, trade mark sign
NormChars == {32, 46, 49, 65, 97, 233, 769, 8482}
\* The longest input string.
MaxNormLen == 5

NormInputs == UNION {[1..n -> NormChars] : n \in 0..MaxNormLen}

InitNorm ==
    /\ pc = "input"
    /\ rawText \in NormInputs
    /\ normText = <<>>
    /\ renormText = <<>>
    /\ tokenList = <<>>
    /\ otherText = <<>>
    /\ otherNorm = <<>>
    /\ AgentIdle
    /\ ChunkerIdle
    /\ ToolIdle

CallTokenize ==
    /\ pc = "input"
    /\ tokenList' = tokenize(rawText)
    /\ pc' = "tokenized"
    /\ UNCHANGED <<rawText, normText, renormText, otherText, otherNorm, agentVars, chunkerVars, toolVars>>

CallNormalize ==
    /\ pc = "tokenized"
    /\ normText' = normalizeForSearch(rawText)
    /\ pc' = "normalized"
    /\ UNCHANGED <<rawText, renormText, tokenList, otherText, otherNorm, agentVars, chunkerVars, toolVars>>

CallNormalizeAgain ==
    /\ pc = "normalized"
    /\ renormText' = normalizeForSearch(normText)
    /\ pc' = "renormalized"
    /\ UNCHANGED <<rawText, normText, tokenList, otherText, otherNorm, agentVars, chunkerVars, toolVars>>

NextNorm == CallTokenize \/ CallNormalize \/ CallNormalizeAgain

SpecNorm == InitNorm /\ [][NextNorm]_vars

\* C3: normalizeForSearch is idempotent: applied to its own result, it returns it.
NormalizeIdempotent ==
    pc = "renormalized" => renormText = normText

\* The words of a normalized string: its maximal runs of characters other than the
\* space, those of two characters or more, in their order.
WordsOf(s) ==
    LET starts == {i \in 1..Len(s) : s[i] # 32 /\ (i = 1 \/ s[i - 1] = 32)}
        stop(i) == CHOOSE j \in i..Len(s) :
                      /\ \A m \in i..j : s[m] # 32
                      /\ (j = Len(s) \/ s[j + 1] = 32)
        long == {i \in starts : stop(i) - i + 1 >= 2}
        nth(k) == CHOOSE i \in long : Cardinality({h \in long : h < i}) = k - 1
    IN  [k \in 1..Cardinality(long) |-> SubSeq(s, nth(k), stop(nth(k)))]

\* C5: every token has two characters or more and holds only letters and numbers,
\* and the tokens are the words of the normalized text, in its order, repeats kept.
TokensClean ==
    /\ pc \in {"tokenized", "normalized", "renormalized"} =>
          \A i \in 1..Len(tokenList) :
              /\ Len(tokenList[i]) >= 2
              /\ \A j \in 1..Len(tokenList[i]) : tokenList[i][j] \in Letters \cup Numbers
    /\ pc \in {"normalized", "renormalized"} => tokenList = WordsOf(normText)

\* An input with punctuation and a one-character word whose tokens are two different
\* words, or the same word twice.
TokensWitness ==
    /\ pc = "normalized"
    /\ Len(tokenList) = 2
    /\ \E i \in 1..Len(rawText) : rawText[i] = 46
    /\ Len(normText) > Len(tokenList[1]) + Len(tokenList[2]) + 1

(***************************************************************************)
(* The normalizer on two strings that differ only in letter case and in    *)
(* combining marks: otherText starts as rawText and is edited by changing  *)
(* the case of a letter, by adding or dropping a combining acute, and by   *)
(* composing or decomposing a letter with its acute; then both strings are *)
(* normalized.                                                             *)
(***************************************************************************)
\* space, 'a', 'e', small sigma
FoldChars == {32, 97, 101, 963}
\* The longest first string.
MaxFoldLen == 3
\* The most combining marks the second string holds.
MaxMarks == 1

FoldInputs == UNION {[1..n -> FoldChars] : n \in 0..MaxFoldLen}

\* <<capital, small>>: A a, E e, E acute and e acute, and the capital sigma with
\* each of its two small forms.
CasePairs == {<<65, 97>>, <<69, 101>>, <<201, 233>>, <<931, 963>>, <<931, 962>>}

\* <<letter, letter with acute>>
AcutePairs == {<<101, 233>>, <<69, 201>>}

MarksIn(s) == Cardinality({i \in 1..Len(s) : s[i] \in CombiningMarks})

InitFold ==
    /\ pc = "input"
    /\ rawText \in FoldInputs
    /\ otherText = rawText
    /\ normText = <<>>
    /\ renormText = <<>>
    /\ tokenList = <<>>
    /\ otherNorm = <<>>
    /\ AgentIdle
    /\ ChunkerIdle
    /\ ToolIdle

FoldFrame == UNCHANGED <<pc, rawText, normText, renormText, tokenList, otherNorm,
                         agentVars, chunkerVars, toolVars>>

\* The letter at position i changes case.
SwapCase ==
    /\ pc = "input"
    /\ \E i \in 1..Len(otherText), cp \in CasePairs :
          \/ otherText[i] = cp[1] /\ otherText' = [otherText EXCEPT ![i] = cp[2]]
          \/ otherText[i] = cp[2] /\ otherText' = [otherText EXCEPT ![i] = cp[1]]
    /\ FoldFrame

\* A combining acute is put after position i.
AddMark ==
    /\ pc = "input"
    /\ MarksIn(otherText) < MaxMarks
    /\ \E i \in 0..Len(otherText) :
          otherText' = SubSeq(otherText, 1, i) \o <<769>> \o SubSeq(otherText, i + 1, Len(otherText))
    /\ FoldFrame

\* The combining mark at position i is dropped.
DropMark ==
    /\ pc = "input"
    /\ \E i \in 1..Len(otherText) :
          /\ otherText[i] \in CombiningMarks
          /\ otherText' = SubSeq(otherText, 1, i - 1) \o SubSeq(otherText, i + 1, Len(otherText))
    /\ FoldFrame

\* A letter and the combining acute after it become the precomposed letter.
Compose ==
    /\ pc = "input"
    /\ \E i \in 1..(Len(otherText) - 1), ap \in AcutePairs :
          /\ otherText[i] = ap[1]
          /\ otherText[i + 1] = 769
          /\ otherText' = SubSeq(otherText, 1, i - 1) \o <<ap[2]>>
                            \o SubSeq(otherText, i + 2, Len(otherText))
    /\ FoldFrame

\* A precomposed letter becomes the letter and a combining acute.
Decompose ==
    /\ pc = "input"
    /\ MarksIn(otherText) < MaxMarks
    /\ \E i \in 1..Len(otherText), ap \in AcutePairs :
          /\ otherText[i] = ap[2]
          /\ otherText' = SubSeq(otherText, 1, i - 1) \o <<ap[1], 769>>
                            \o SubSeq(otherText, i + 1, Len(otherText))
    /\ FoldFrame

\* Both strings are normalized.
NormalizeBoth ==
    /\ pc = "input"
    /\ normText' = normalizeForSearch(rawText)
    /\ otherNorm' = normalizeForSearch(otherText)
    /\ pc' = "compared"
    /\ UNCHANGED <<rawText, otherText, renormText, tokenList, agentVars, chunkerVars, toolVars>>

NextFold == SwapCase \/ AddMark \/ DropMark \/ Compose \/ Decompose \/ NormalizeBoth

SpecFold == InitFold /\ [][NextFold]_vars

\* C4: two strings that differ only in letter case or in combining diacritical
\* marks, precomposed or decomposed, normalize to the same string.
CaseAndMarksFoldAway ==
    pc = "compared" => normText = otherNorm

\* The same for the strings without a sigma: they do normalize to the same string.
LatinCaseAndMarksFoldAway ==
    (pc = "compared" /\ \A i \in 1..Len(rawText) : rawText[i] # 963) => normText = otherNorm

(***************************************************************************)
(* The chunker on its own: parseTxtToChunks applied to every text of up to *)
(* MaxLines lines of LinePool, with maxChunkChars absent or small.         *)
(***************************************************************************)
\* "", " ", "ab", "cd. ef", " d |e|f" followed by a carriage return, "#g|h|i",
\* "j||k", "|", and "a. " followed by E with acute and the trade mark sign
LinePool ==
    {<<>>,
     <<32>>,
     <<97, 98>>,
     <<99, 100, 46, 32, 101, 102>>,
     <<32, 100, 32, 124, 101, 124, 102, 13>>,
     <<35, 103, 124, 104, 124, 105>>,
     <<106, 124, 124, 107>>,
     <<124>>,
     <<97, 46, 32, 201, 8482>>}
\* The most lines a text has.
MaxLines == 4
\* The small maxChunkChars.
SmallMaxChunkChars == 8

\* "knowledge/autolife/p.txt"
SourceFile == pathJoin(FolderPath, <<112, 46, 116, 120, 116>>)

Documents == UNION {[1..n -> LinePool] : n \in 0..MaxLines}

OptionSets ==
    {[tenantId |-> TenantId, sourceFile |-> SourceFile],
     [tenantId |-> TenantId, sourceFile |-> SourceFile, maxChunkChars |-> SmallMaxChunkChars]}

\* The text of a document: its lines, a line feed between them.
TextOf(lines) == join(lines, <<10>>)

InitChunker ==
    /\ pc = "input"
    /\ document \in Documents
    /\ options \in OptionSets
    /\ chunkList = <<>>
    /\ AgentIdle
    /\ NormIdle
    /\ ToolIdle

Parse ==
    /\ pc = "input"
    /\ chunkList' = parseTxtToChunks(TextOf(document), options)
    /\ pc' = "parsed"
    /\ UNCHANGED <<document, options, agentVars, normVars, toolVars>>

NextChunker == Parse

SpecChunker == InitChunker /\ [][NextChunker]_vars

(***************************************************************************)
(* Properties of the chunker.                                              *)
(***************************************************************************)
\* A line without anything but white space.
Blank(line) == \A i \in 1..Len(line) : line[i] \in WhiteSpace

\* The parts of a line between its '|', as positions: the k-th part is the stretch
\* between the (k-1)-th and the k-th '|'.
Bars(line) == {i \in 1..Len(line) : line[i] = 124}

\* A well-formed row: two '|', and something other than white space before the
\* first, between the two and after the second.
WellFormedRow(line) ==
    /\ Cardinality(Bars(line)) = 2
    /\ LET b1 == CHOOSE i \in Bars(line) : \A j \in Bars(line) : i <= j
           b2 == CHOOSE i \in Bars(line) : \A j \in Bars(line) : i >= j
       IN  /\ \E i \in 1..(b1 - 1) : line[i] \notin WhiteSpace
           /\ \E i \in (b1 + 1)..(b2 - 1) : line[i] \notin WhiteSpace
           /\ \E i \in (b2 + 1)..Len(line) : line[i] \notin WhiteSpace

\* The position of the title line: the first line that is not blank.
TitlePos == CHOOSE i \in 1..Len(document) :
                ~Blank(document[i]) /\ \A j \in 1..(i - 1) : Blank(document[j])

\* The body of a document that has a title line: the lines after it.
BodyLines == SliceFrom(document, TitlePos)

\* The positions, in the body, of its rows.
RowPositions == {i \in 1..Len(BodyLines) : WellFormedRow(BodyLines[i])}

\* A tabular document: a title line, then well-formed rows, at least one, and
\* nothing else but blank lines.
TabularDocument ==
    /\ \E i \in 1..Len(document) : ~Blank(document[i])
    /\ RowPositions # {}
    /\ \A i \in 1..Len(BodyLines) : i \in RowPositions \/ Blank(BodyLines[i])

\* "Service:", "Price:", "Notes:"
HasAllLabels(text) ==
    /\ includes(text, SubSeq(ServiceLabel, 1, 8))
    /\ includes(text, SubSeq(PriceLabel, 1, 6))
    /\ includes(text, SubSeq(NotesLabel, 1, 6))

\* C9 as claimed: a tabular document of N well-formed rows yields exactly N chunks,
\* each with "Service:", "Price:" and "Notes:" in its text.
RowsYieldChunks ==
    (pc = "parsed" /\ TabularDocument) =>
        /\ Len(chunkList) = Cardinality(RowPositions)
        /\ \A k \in 1..Len(chunkList) : HasAllLabels(chunkList[k].text)

\* The first character of a row that is not white space.
FirstSolid(line) == line[CHOOSE i \in 1..Len(line) :
                            line[i] \notin WhiteSpace /\ \A j \in 1..(i - 1) : line[j] \in WhiteSpace]

\* The length of the passage of a row: the three labels with their full stops and
\* the two spaces between them are 28 characters, the rest is the three columns.
PassageLength(line) ==
    LET cols == TrimAll(split(line, 124))
    IN  28 + Len(cols[1]) + Len(cols[2]) + Len(cols[3])

\* C9 as amended: when no row starts with '#' and the passage of every row is at
\* most maxChunkChars long, N rows yield exactly N chunks, each with the three labels.
PlainRowsYieldChunks ==
    (/\ pc = "parsed"
     /\ TabularDocument
     /\ \A i \in RowPositions :
           /\ FirstSolid(BodyLines[i]) # 35
           /\ PassageLength(BodyLines[i]) <= MaxChunkCharsOf(options)) =>
        /\ Len(chunkList) = Cardinality(RowPositions)
        /\ \A k \in 1..Len(chunkList) : HasAllLabels(chunkList[k].text)

\* The amended claim without its condition on '#': a long row breaks it.
RowsWithoutHashYieldChunks ==
    (/\ pc = "parsed"
     /\ TabularDocument
     /\ \A i \in RowPositions : FirstSolid(BodyLines[i]) # 35) =>
        /\ Len(chunkList) = Cardinality(RowPositions)
        /\ \A k \in 1..Len(chunkList) : HasAllLabels(chunkList[k].text)

\* The amended claim without its condition on the length: a row that starts with
\* '#' breaks it.
ShortRowsYieldChunks ==
    (/\ pc = "parsed"
     /\ TabularDocument
     /\ \A i \in RowPositions : PassageLength(BodyLines[i]) <= MaxChunkCharsOf(options)) =>
        /\ Len(chunkList) = Cardinality(RowPositions)
        /\ \A k \in 1..Len(chunkList) : HasAllLabels(chunkList[k].text)

\* A parsed tabular document of two such rows, one of them with white space around
\* its columns, and a blank line.
PlainRowsWitness ==
    /\ pc = "parsed"
    /\ TabularDocument
    /\ Cardinality(RowPositions) = 2
    /\ \E i \in RowPositions : BodyLines[i][1] \in WhiteSpace
    /\ \E i \in 1..Len(BodyLines) : Blank(BodyLines[i])
    /\ \A i \in RowPositions :
          /\ FirstSolid(BodyLines[i]) # 35
          /\ PassageLength(BodyLines[i]) <= MaxChunkCharsOf(options)
    /\ Len(chunkList) = 2

\* The positions, in the body, of the first lines of its paragraphs: the lines that
\* are not blank and follow a blank line or the title.
ParagraphStarts ==
    {i \in 1..Len(BodyLines) :
        ~Blank(BodyLines[i]) /\ (i = 1 \/ Blank(BodyLines[i - 1]))}

\* The last line of the paragraph that starts at line i.
ParagraphEnd(i) ==
    CHOOSE j \in i..Len(BodyLines) :
        /\ \A m \in i..j : ~Blank(BodyLines[m])
        /\ (j = Len(BodyLines) \/ Blank(BodyLines[j + 1]))

\* The paragraph that starts at line i as one line: its lines without the white
\* space around them, a space between them.
ParagraphText(i) ==
    LET n == ParagraphEnd(i) - i + 1
    IN  join([m \in 1..n |-> trim(BodyLines[i + m - 1])], <<32>>)

\* The start of the k-th paragraph.
NthParagraph(k) ==
    CHOOSE i \in ParagraphStarts : Cardinality({h \in ParagraphStarts : h < i}) = k - 1

\* A narrative document: a title line, and no '|' after it.
NarrativeDocument ==
    /\ \E i \in 1..Len(document) : ~Blank(document[i])
    /\ \A i \in 1..Len(BodyLines) : Bars(BodyLines[i]) = {}

\* C10: a narrative document whose body has P paragraphs delimited by blank lines,
\* each shorter than maxChunkChars, yields exactly P chunks, the k-th chunk being
\* the k-th paragraph.
ParagraphsYieldChunks ==
    (/\ pc = "parsed"
     /\ NarrativeDocument
     /\ \A i \in ParagraphStarts : Len(ParagraphText(i)) < MaxChunkCharsOf(options)) =>
        /\ Len(chunkList) = Cardinality(ParagraphStarts)
        /\ \A k \in 1..Len(chunkList) : chunkList[k].text = ParagraphText(NthParagraph(k))

\* A parsed narrative document of two different paragraphs with a line of white
\* space between them, under the small maxChunkChars.
ParagraphsWitness ==
    /\ pc = "parsed"
    /\ NarrativeDocument
    /\ "maxChunkChars" \in DOMAIN options
    /\ Cardinality(ParagraphStarts) = 2
    /\ \A i \in ParagraphStarts : Len(ParagraphText(i)) < MaxChunkCharsOf(options)
    /\ \E i \in 1..Len(BodyLines) : Blank(BodyLines[i]) /\ BodyLines[i] # <<>>
    /\ Len(chunkList) = 2
    /\ chunkList[1].text # chunkList[2].text

(***************************************************************************)
(* Properties of the length enforcement.                                   *)
(***************************************************************************)
\* The positions of a text where a sentence ends: white space right after '.', '!'
\* or '?'.
SentenceBreaks(text) ==
    {i \in 2..Len(text) : text[i] \in WhiteSpace /\ text[i - 1] \in {46, 33, 63}}

\* The sentences of a text without white space at its ends: each starts at the
\* start of the text or after the white space that follows a sentence end, and runs
\* to the next sentence end or to the end of the text.
SentencesOf(text) ==
    LET breaks == SentenceBreaks(text)
        starts == {a \in 1..Len(text) :
                      \/ a = 1
                      \/ /\ text[a] \notin WhiteSpace
                         /\ \E i \in breaks :
                               i < a /\ \A m \in i..(a - 1) : text[m] \in WhiteSpace}
        stop(a) == CHOOSE b \in a..Len(text) :
                      /\ b = Len(text) \/ (b + 1) \in breaks
                      /\ \A m \in (a + 1)..b : m \notin breaks
    IN  {SubSeq(text, a, stop(a)) : a \in starts}

\* The passages of the parsed document before the length enforcement.
RawPassages == rawPassagesOf(BodyOf(TextOf(document)))

\* C11: the text of every chunk is at most maxChunkChars long, unless the chunk is
\* one sentence; and a sentence longer than maxChunkChars, of a passage longer than
\* maxChunkChars, is the whole text of a chunk: not merged with another sentence,
\* not truncated.
ChunksWithinLimit ==
    pc = "parsed" =>
        LET limit == MaxChunkCharsOf(options)
            raw == RawPassages
        IN  /\ \A k \in 1..Len(chunkList) :
                  \/ Len(chunkList[k].text) <= limit
                  \/ SentenceBreaks(chunkList[k].text) = {}
            /\ \A i \in 1..Len(raw) :
                  Len(raw[i]) > limit =>
                      \A s \in SentencesOf(raw[i]) :
                          Len(s) > limit =>
                              \E k \in 1..Len(chunkList) : chunkList[k].text = s

\* A parsed narrative document of one paragraph cut into three chunks, the second
\* a sentence longer than maxChunkChars between two short ones.
ChunksWithinLimitWitness ==
    /\ pc = "parsed"
    /\ NarrativeDocument
    /\ Len(RawPassages) = 1
    /\ Len(chunkList) = 3
    /\ Len(chunkList[1].text) <= MaxChunkCharsOf(options)
    /\ Len(chunkList[2].text) > MaxChunkCharsOf(options)
    /\ Len(chunkList[3].text) <= MaxChunkCharsOf(options)

\* A parsed document with a chunk of two sentences put together within the limit.
MergedSentencesWitness ==
    /\ pc = "parsed"
    /\ \E i \in 1..Len(RawPassages) : Len(RawPassages[i]) > MaxChunkCharsOf(options)
    /\ \E k \in 1..Len(chunkList) :
          /\ SentenceBreaks(chunkList[k].text) # {}
          /\ Len(chunkList[k].text) <= MaxChunkCharsOf(options)

(***************************************************************************)
(* The agent on the example folders: the price list pricing.txt, a text    *)
(* with a long title and the plain text of three paragraphs.  A call       *)
(* passes one of ExampleQueries, or the full text of a chunk of the index. *)
(***************************************************************************)
\* "pricing.txt"
PricingFile == <<112, 114, 105, 99, 105, 110, 103, 46, 116, 120, 116>>
\* "Autolife Price List" / "Oil change|$40|synthetic" / "Brake pads|$80|front only"
PricingText == <<65, 117, 116, 111, 108, 105, 102, 101, 32, 80, 114, 105, 99, 101, 32, 76, 105, 115, 116, 10, 79, 105, 108, 32, 99, 104, 97, 110, 103, 101, 124, 36, 52, 48, 124, 115, 121, 110, 116, 104, 101, 116, 105, 99, 10, 66, 114, 97, 107, 101, 32, 112, 97, 100, 115, 124, 36, 56, 48, 124, 102, 114, 111, 110, 116, 32, 111, 110, 108, 121>>
\* "t.txt"
TitledFile == <<116, 46, 116, 120, 116>>
\* "gh ij kl mn op qr st" / "ab cd ef": one paragraph under a title of seven words
TextLongTitle == <<103, 104, 32, 105, 106, 32, 107, 108, 32, 109, 110, 32, 111, 112, 32, 113, 114, 32, 115, 116, 10, 97, 98, 32, 99, 100, 32, 101, 102>>

ExampleEntries ==
    {[name |-> PricingFile, isFile |-> TRUE, content |-> PricingText],
     [name |-> TitledFile, isFile |-> TRUE, content |-> TextLongTitle],
     [name |-> FileA, isFile |-> TRUE, content |-> TextPlain]}

ExampleListings ==
    {l \in UNION {[1..n -> ExampleEntries] : n \in 0..MaxFiles} :
        \A i, j \in 1..Len(l) : i # j => l[i].name # l[j].name}

\* "brake pads price"
BrakeQuery == <<98, 114, 97, 107, 101, 32, 112, 97, 100, 115, 32, 112, 114, 105, 99, 101>>

\* "", "brake pads price", "oil change", "front only", "ab cd", "cd AB",
\* "ab cd gh ij kl mn op qr st"
ExampleQueries ==
    {<<>>,
     BrakeQuery,
     <<111, 105, 108, 32, 99, 104, 97, 110, 103, 101>>,
     <<102, 114, 111, 110, 116, 32, 111, 110, 108, 121>>,
     <<97, 98, 32, 99, 100>>,
     <<99, 100, 32, 65, 66>>,
     <<97, 98, 32, 99, 100, 32, 103, 104, 32, 105, 106, 32, 107, 108, 32, 109, 110, 32, 111, 112, 32, 113, 114, 32, 115, 116>>}

\* The parameters of a call with query q, the index apart: topK absent, or 0..MaxTopK.
CallsWith(q) == {[query |-> q]} \cup {[query |-> q, topK |-> k] : k \in 0..MaxTopK}

InitExamples ==
    /\ pc = "start"
    /\ folder \in ExampleListings
    /\ index = NoIndex
    /\ call = NoCall
    /\ results = <<>>
    /\ scored = 0
    /\ NormIdle
    /\ ChunkerIdle
    /\ ToolIdle

\* One call of searchDocs with parameters c on the loaded index.
SearchWith(c) ==
    /\ pc \in {"ready", "searched"}
    /\ LET run == SearchRun(WithIndex(c))
       IN  /\ call' = c
           /\ results' = run.returned
           /\ scored' = run.scored
           /\ index' = run.index
    /\ pc' = "searched"
    /\ UNCHANGED <<folder, normVars, chunkerVars, toolVars>>

\* A call with one of the example queries.
SearchExample == \E q \in ExampleQueries : \E c \in CallsWith(q) : SearchWith(c)

\* A call whose query is the full text of a chunk of the index.
SearchFullText ==
    \E p \in 1..Len(index.chunks) : \E c \in CallsWith(index.chunks[p].text) : SearchWith(c)

NextExamples == Load \/ LoadFails \/ SearchExample \/ SearchFullText

SpecExamples == InitExamples /\ [][NextExamples]_vars

\* "Service: Oil change. Price: $40. Notes: synthetic."
OilChunkText == <<83, 101, 114, 118, 105, 99, 101, 58, 32, 79, 105, 108, 32, 99, 104, 97, 110, 103, 101, 46, 32, 80, 114, 105, 99, 101, 58, 32, 36, 52, 48, 46, 32, 78, 111, 116, 101, 115, 58, 32, 115, 121, 110, 116, 104, 101, 116, 105, 99, 46>>
\* "Service: Brake pads. Price: $80. Notes: front only."
BrakeChunkText == <<83, 101, 114, 118, 105, 99, 101, 58, 32, 66, 114, 97, 107, 101, 32, 112, 97, 100, 115, 46, 32, 80, 114, 105, 99, 101, 58, 32, 36, 56, 48, 46, 32, 78, 111, 116, 101, 115, 58, 32, 102, 114, 111, 110, 116, 32, 111, 110, 108, 121, 46>>

\* The texts of the chunks of the index made from pricing.txt, in index order.
PricingChunkTexts ==
    LET fromPricing == {p \in 1..Len(index.chunks) : index.chunks[p].sourceFile = PricingFile}
        nth(k) == CHOOSE p \in fromPricing : Cardinality({h \in fromPricing : h < p}) = k - 1
    IN  [k \in 1..Cardinality(fromPricing) |-> index.chunks[nth(k)].text]

\* Whether the folder holds pricing.txt.
HasPricing == \E i \in 1..Len(folder) : folder[i].name = PricingFile

\* C12: pricing.txt yields exactly the two chunks "Service: Oil change. Price: $40.
\* Notes: synthetic." and "Service: Brake pads. Price: $80. Notes: front only.", and
\* a call with the query "brake pads price" returns the brake-pads chunk first.
PricingExample ==
    /\ (pc \in {"ready", "searched"} /\ HasPricing) =>
          PricingChunkTexts = <<OilChunkText, BrakeChunkText>>
    /\ (pc = "searched" /\ HasPricing /\ call.query = BrakeQuery /\ TopKOf(call) >= 1) =>
          /\ Len(results) >= 1
          /\ results[1].text = BrakeChunkText
          /\ results[1].sourceFile = PricingFile

\* The call with the query "brake pads price" has returned both chunks of
\* pricing.txt, the brake-pads chunk ahead of the oil-change chunk that comes
\* first in the index.
PricingExampleWitness ==
    /\ pc = "searched"
    /\ HasPricing
    /\ call.query = BrakeQuery
    /\ Len(results) = 2
    /\ results[1].text = BrakeChunkText
    /\ results[2].text = OilChunkText
    /\ results[1].score > results[2].score

\* Whether a list of results holds the result made from chunk c, and its score there.
Returned(res, c) ==
    \E i \in 1..Len(res) : res[i].chunkId = c.chunkId /\ res[i].text = c.text
ScoreIn(res, c) ==
    res[CHOOSE i \in 1..Len(res) : res[i].chunkId = c.chunkId /\ res[i].text = c.text].score

\* The tokens a query shares with a chunk.
SharedTokens(c, query) == SetOf(tokenize(query)) \cap SetOf(c.tokens)

\* C13 as claimed: when a call with a query that shares exactly two tokens with a
\* chunk is followed by a call whose query is the full text of that chunk, the
\* chunk's score in the second call is greater than its score in the first.
FullTextOutranksTwoShared ==
    [][\A p \in 1..Len(index.chunks) :
          LET c == index.chunks[p]
          IN  (/\ pc = "searched"
               /\ pc' = "searched"
               /\ Cardinality(SharedTokens(c, call.query)) = 2
               /\ call.query # c.text
               /\ call'.query = c.text
               /\ Returned(results, c)
               /\ Returned(results', c)) =>
                  ScoreIn(results', c) > ScoreIn(results, c)]_vars

\* C13 as amended: the same for a chunk of more than two tokens and a first query
\* of exactly two tokens, both of them tokens of the chunk.
FullTextOutranksTwoTokens ==
    [][\A p \in 1..Len(index.chunks) :
          LET c == index.chunks[p]
          IN  (/\ pc = "searched"
               /\ pc' = "searched"
               /\ Len(c.tokens) > 2
               /\ Len(tokenize(call.query)) = 2
               /\ SetOf(tokenize(call.query)) \subseteq SetOf(c.tokens)
               /\ call'.query = c.text
               /\ Returned(results, c)
               /\ TopKOf(call') >= 1) =>
                  /\ Returned(results', c)
                  /\ ScoreIn(results', c) > ScoreIn(results, c)]_vars

\* A call whose query is the full text of a chunk of more than two tokens has
\* returned that chunk first, with 2 for each of its tokens, 1 for each of its
\* tokens that is in the title, and the substring boost of 4.
FullTextWitness ==
    /\ pc = "searched"
    /\ \E p \in 1..Len(index.chunks) :
          LET c == index.chunks[p]
          IN  /\ call.query = c.text
              /\ Len(c.tokens) > 2
              /\ Len(results) >= 1
              /\ results[1].chunkId = c.chunkId
              /\ results[1].score =
                    2 * Len(c.tokens)
                    + Cardinality({i \in 1..Len(c.tokens) : c.tokens[i] \in SetOf(tokenize(c.title))})
                    + 4
              /\ \E q \in ExampleQueries :
                    /\ Len(tokenize(q)) = 2
                    /\ SetOf(tokenize(q)) \subseteq SetOf(c.tokens)
                    /\ includes(normalizeForSearch(c.text), normalizeForSearch(q))

(***************************************************************************)
(* Properties of the chunks of a document.                                 *)
(***************************************************************************)
\* Whether the document has a line that is not blank: its title line.
HasTitleLine == \E i \in 1..Len(document) : ~Blank(document[i])

\* The characters of the k-th field of a line: those after its (k-1)-th '|' and
\* before its k-th; none when the line has fewer than k - 1 '|'.
FieldOf(line, k) ==
    LET nthBar(n) == CHOOSE b \in Bars(line) : Cardinality({h \in Bars(line) : h < b}) = n - 1
        lo == IF k = 1 THEN 1 ELSE nthBar(k - 1) + 1
        hi == IF Cardinality(Bars(line)) >= k THEN nthBar(k) - 1 ELSE Len(line)
    IN  IF Cardinality(Bars(line)) < k - 1 THEN <<>> ELSE SubSeq(line, lo, hi)

\* A row without anything in its first three fields.
EmptyRow(line) == \A k \in 1..3 : Blank(FieldOf(line, k))

\* The positions, in the body, of the lines the tabular path makes a passage of:
\* those with a '|' that do not start with '#' and have something in a field.
FilledRows ==
    {i \in 1..Len(BodyLines) :
        /\ Bars(BodyLines[i]) # {}
        /\ FirstSolid(BodyLines[i]) # 35
        /\ ~EmptyRow(BodyLines[i])}

\* Whether a line of the body has a '|'.
BodyHasBar == \E i \in 1..Len(BodyLines) : Bars(BodyLines[i]) # {}

\* C14: the text of every chunk is not empty and has no white space at its ends;
\* and, when no passage is long enough to be split, a tabular document yields one
\* chunk for each row with something in its first three fields, none for the
\* others, and a narrative document one chunk for each paragraph, none for the
\* blank lines around them.
ChunkTextNotEmpty ==
    pc = "parsed" =>
        /\ \A k \in 1..Len(chunkList) :
              chunkList[k].text # <<>> /\ trim(chunkList[k].text) = chunkList[k].text
        /\ ~HasTitleLine => chunkList = <<>>
        /\ (HasTitleLine /\ "maxChunkChars" \notin DOMAIN options) =>
              Len(chunkList) = (IF BodyHasBar THEN Cardinality(FilledRows)
                                ELSE Cardinality(ParagraphStarts))

\* A parsed tabular document with a row "|" and a row with a field left empty:
\* one chunk.
ChunkTextWitness ==
    /\ pc = "parsed"
    /\ HasTitleLine
    /\ "maxChunkChars" \notin DOMAIN options
    /\ \E i \in 1..Len(BodyLines) : Bars(BodyLines[i]) # {} /\ EmptyRow(BodyLines[i])
    /\ \E i \in FilledRows : ~WellFormedRow(BodyLines[i])
    /\ Len(chunkList) = 1

(***************************************************************************)
(* Properties of the index.                                                *)
(***************************************************************************)
\* The index as loadTenantTxtKnowledge built it from the folder.
LoadedIndex ==
    loadTenantTxtKnowledge([tenantId |-> TenantId, folderPath |-> FolderPath], folder)

\* The parameters of the last call, with the index as it was built.
CallOnLoadedIndex ==
    IF "topK" \in DOMAIN call
    THEN [index |-> LoadedIndex, query |-> call.query, topK |-> call.topK]
    ELSE [index |-> LoadedIndex, query |-> call.query]

\* C15: after any sequence of searchDocs calls the index is the index as it was
\* built (tenantId, the order of the chunks, every field of every chunk), and the
\* last call has returned what one call on the index as built returns.
SearchLeavesIndex ==
    /\ pc \in {"ready", "searched"} => index = LoadedIndex
    /\ pc = "searched" => results = searchDocs(CallOnLoadedIndex)

\* The position in the index of the chunk a result was made from.
PositionOf(r) ==
    CHOOSE p \in 1..Len(index.chunks) :
        index.chunks[p].chunkId = r.chunkId /\ index.chunks[p].text = r.text

\* A call has returned three results in another order than the order of their
\* chunks in the index, the chunk ids of the index being distinct.
SearchLeavesIndexWitness ==
    /\ pc = "searched"
    /\ ChunkIdsDistinct
    /\ Len(results) = 3
    /\ PositionOf(results[2]) > PositionOf(results[3])
    /\ index = LoadedIndex

\* C16: when a read has failed, there is no index, no call has been served and the
\* load is not run again; and an index the agent has is the index of all the .txt
\* files of the folder, never of some of them.
LoadFailsAsAWhole ==
    /\ pc = "failed" =>
          /\ index = NoIndex
          /\ call = NoCall
          /\ results = <<>>
          /\ ~ENABLED Load
          /\ ~ENABLED LoadFails
          /\ ~ENABLED Search
    /\ pc \in {"ready", "searched"} => index = LoadedIndex

\* A load has failed on a folder with two .txt files that both have chunks.
LoadFailsWitness ==
    /\ pc = "failed"
    /\ Len(TxtFiles(folder)) = 2
    /\ \A i \in 1..2 :
          \E p \in 1..Len(LoadedIndex.chunks) :
              LoadedIndex.chunks[p].sourceFile = TxtFiles(folder)[i]

\* The results of the last call that were made from pricing.txt.
PricingResults == {i \in 1..Len(results) : results[i].sourceFile = PricingFile}

\* C17 as claimed: for the query "brake pads price", the normalized query is not a
\* substring of the normalized text of either chunk of pricing.txt.
NoBoostInPricingExample ==
    (pc = "searched" /\ HasPricing /\ call.query = BrakeQuery) =>
        \A i \in PricingResults : ~includes(normalizeForSearch(results[i].text), CallNorm)

\* C17 as amended: the normalized query is a substring of the normalized text of
\* the brake-pads chunk, "service brake pads price 80 notes front only", and not of
\* the oil-change chunk: the brake-pads chunk scores 2 x 3 + 1 + 4, the oil-change
\* chunk 2 x 1 + 1.
BoostForBrakeChunkOnly ==
    (pc = "searched" /\ HasPricing /\ call.query = BrakeQuery) =>
        \A i \in PricingResults :
            /\ results[i].text \in {BrakeChunkText, OilChunkText}
            /\ results[i].text = BrakeChunkText =>
                  /\ includes(normalizeForSearch(results[i].text), CallNorm)
                  /\ results[i].score = 11
            /\ results[i].text = OilChunkText =>
                  /\ ~includes(normalizeForSearch(results[i].text), CallNorm)
                  /\ results[i].score = 3

\* The call with the query "brake pads price" has returned the brake-pads chunk
\* with the score 11 and the oil-change chunk with the score 3.
BoostWitness ==
    /\ pc = "searched"
    /\ call.query = BrakeQuery
    /\ \E i, j \in PricingResults :
          /\ results[i].text = BrakeChunkText /\ results[i].score = 11
          /\ results[j].text = OilChunkText /\ results[j].score = 3

\* C18: every token of every chunk is equal to its own lowercasing, has no
\* combining diacritical mark and no character other than letters and numbers, and
\* is two characters long or longer.
ChunkTokensLowercase ==
    pc = "parsed" =>
        \A k \in 1..Len(chunkList) :
            \A n \in 1..Len(chunkList[k].tokens) :
                LET token == chunkList[k].tokens[n]
                IN  /\ toLowerCase(token) = token
                    /\ \A i \in 1..Len(token) :
                          token[i] \notin CombiningMarks /\ token[i] \in Letters \cup Numbers
                    /\ Len(token) >= 2

(***************************************************************************)
(* Properties of the shape detection.                                      *)
(***************************************************************************)
\* The passage a row stands for: for each of its first three fields that is not
\* blank, the label of the field, the field without the white space around it and
\* a full stop; a space between them.
RowText(line) ==
    LET labels == <<ServiceLabel, PriceLabel, NotesLabel>>
        filled == {k \in 1..3 : ~Blank(FieldOf(line, k))}
        nth(n) == CHOOSE k \in filled : Cardinality({h \in filled : h < k}) = n - 1
    IN  join([n \in 1..Cardinality(filled) |->
                 labels[nth(n)] \o trim(FieldOf(line, nth(n))) \o <<46>>], <<32>>)

\* The passages of a tabular body: those of its filled rows, in the order of the lines.
RowTexts ==
    LET nth(n) == CHOOSE i \in FilledRows : Cardinality({h \in FilledRows : h < i}) = n - 1
    IN  [n \in 1..Cardinality(FilledRows) |-> RowText(BodyLines[nth(n)])]

\* The passages of a narrative body: its paragraphs, in the order of the lines.
ParagraphTexts ==
    [n \in 1..Cardinality(ParagraphStarts) |-> ParagraphText(NthParagraph(n))]

\* The texts of the chunks, in their order.
ChunkTexts == [k \in 1..Len(chunkList) |-> chunkList[k].text]

\* C19: when a line of the body has a '|', the chunks are made from the rows alone:
\* the lines without '|', the blank lines and the lines that start with '#' give
\* none; when no line of the body has a '|', the chunks are made from the
\* paragraphs.  Without a split for length the chunks are these passages one for
\* one; with it, their texts put together are these passages put together.
ShapeIsPerDocument ==
    (pc = "parsed" /\ HasTitleLine) =>
        LET expected == IF BodyHasBar THEN RowTexts ELSE ParagraphTexts
        IN  /\ join(ChunkTexts, <<32>>) = join(expected, <<32>>)
            /\ "maxChunkChars" \notin DOMAIN options => ChunkTexts = expected

\* A parsed document whose body has a line without '|', a row that starts with
\* '#' and a filled row: one chunk, made from the filled row.
ShapeWitness ==
    /\ pc = "parsed"
    /\ HasTitleLine
    /\ "maxChunkChars" \notin DOMAIN options
    /\ \E i \in 1..Len(BodyLines) : ~Blank(BodyLines[i]) /\ Bars(BodyLines[i]) = {}
    /\ \E i \in 1..Len(BodyLines) : Bars(BodyLines[i]) # {} /\ FirstSolid(BodyLines[i]) = 35
    /\ Cardinality(FilledRows) = 1
    /\ Len(chunkList) = 1

(***************************************************************************)
(* Properties of the title.                                                *)
(***************************************************************************)
\* The title a document is to get: its first line that is not blank, without the
\* white space around it, or the base name of the file, "p.txt".
ExpectedTitle ==
    IF HasTitleLine THEN trim(document[TitlePos]) ELSE <<112, 46, 116, 120, 116>>

\* C20: the title is the first line that is not blank, trimmed, or the base name of
\* the file when every line is blank; every chunk of the document has that title;
\* and the chunks are made from the lines after the title line alone: without a
\* split for length they are the passages of those lines, and a document without
\* anything after its title line has no chunk.
TitleIsFirstLine ==
    pc = "parsed" =>
        /\ TitleOf(TextOf(document), options.sourceFile) = ExpectedTitle
        /\ \A k \in 1..Len(chunkList) : chunkList[k].title = ExpectedTitle
        /\ ~HasTitleLine => chunkList = <<>>
        /\ (HasTitleLine /\ \A i \in 1..Len(BodyLines) : Blank(BodyLines[i])) =>
              chunkList = <<>>
        /\ (HasTitleLine /\ "maxChunkChars" \notin DOMAIN options) =>
              ChunkTexts = (IF BodyHasBar THEN RowTexts ELSE ParagraphTexts)

\* A parsed document whose title line comes after a blank line, has white space
\* around it and a '|' in it, and is followed by a narrative body: the chunks, two
\* or more, have the trimmed line as their title.
TitleWitness ==
    /\ pc = "parsed"
    /\ HasTitleLine
    /\ TitlePos > 1
    /\ trim(document[TitlePos]) # document[TitlePos]
    /\ Bars(document[TitlePos]) # {}
    /\ ~BodyHasBar
    /\ Len(chunkList) >= 2
    /\ \A k \in 1..Len(chunkList) : chunkList[k].title = trim(document[TitlePos])

(***************************************************************************)
(* The length enforcement keeps the sentences.                             *)
(***************************************************************************)
\* The sentences of a text without white space at its ends, in their order.
SentenceSeq(text) ==
    LET breaks == SentenceBreaks(text)
        starts == {a \in 1..Len(text) :
                      \/ a = 1
                      \/ /\ text[a] \notin WhiteSpace
                         /\ text[a - 1] \in WhiteSpace
                         /\ \E i \in breaks :
                               i < a /\ \A m \in i..(a - 1) : text[m] \in WhiteSpace}
        stops == {b \in 1..Len(text) : b = Len(text) \/ (b + 1) \in breaks}
        stop(a) == CHOOSE b \in stops : b >= a /\ \A c \in stops : c >= a => b <= c
        nth(k) == CHOOSE a \in starts : Cardinality({h \in starts : h < a}) = k - 1
    IN  [k \in 1..Cardinality(starts) |-> SubSeq(text, nth(k), stop(nth(k)))]

\* The sentences of the first n of a sequence of texts, given the sentences of each.
SentencesUpTo(sentences, n) == Flatten(SubSeq(sentences, 1, n))

\* C21: the sentences of the chunks, read in the order of the chunks, are the
\* sentences of the passages in their order, each once; no chunk holds sentences
\* of two passages; and a passage that is not longer than maxChunkChars is the
\* text of one chunk, unchanged.  (The empty passage of a row without fields is
\* left out: it has no sentence and gives no chunk.)
SentencesKept ==
    pc = "parsed" =>
        LET limit == MaxChunkCharsOf(options)
            all == RawPassages
            raw == FilterSeq(all, {q \in SetOf(all) : q # <<>>})
            texts == ChunkTexts
            ofRaw == [i \in 1..Len(raw) |-> SentenceSeq(raw[i])]
            ofChunks == [k \in 1..Len(texts) |-> SentenceSeq(texts[k])]
            ends == {Len(SentencesUpTo(ofChunks, k)) : k \in 0..Len(texts)}
        IN  /\ SentencesUpTo(ofChunks, Len(texts)) = SentencesUpTo(ofRaw, Len(raw))
            /\ \A i \in 0..Len(raw) : Len(SentencesUpTo(ofRaw, i)) \in ends
            /\ \A i \in 1..Len(raw) :
                  Len(raw[i]) <= limit =>
                      \E k \in 1..Len(texts) :
                          /\ texts[k] = raw[i]
                          /\ Len(SentencesUpTo(ofChunks, k - 1))
                                = Len(SentencesUpTo(ofRaw, i - 1))

\* A parsed document of one passage longer than maxChunkChars, of three sentences
\* or more, cut into two chunks or more, one of them of two sentences or more.
SentencesKeptWitness ==
    /\ pc = "parsed"
    /\ Len(RawPassages) = 1
    /\ Len(RawPassages[1]) > MaxChunkCharsOf(options)
    /\ Len(SentenceSeq(RawPassages[1])) >= 3
    /\ Len(chunkList) >= 2
    /\ \E k \in 1..Len(chunkList) : Len(SentenceSeq(chunkList[k].text)) >= 2

(***************************************************************************)
(* The searchDocs tool of the voice agent (agent.ts).  The session keeps   *)
(* lastUserLang, written by the handler of the event                       *)
(* 'input_speech_transcription_completed'.  A call of the tool runs between*)
(* its awaits without interruption; the handler runs whenever an event     *)
(* arrives, also while a call is suspended in the 500 ms wait or in        *)
(* translateToEnglish.  pc is the position of the call: "ready" before the *)
(* first call, "waiting" in the 500 ms wait, "translating" in              *)
(* translateToEnglish, "replied" once the payload is returned, "rejected"  *)
(* once translateToEnglish has thrown.  JSON.stringify is left out: the    *)
(* payload is the object it is given.                                      *)
(***************************************************************************)
\* 'English', 'Russian', 'Greek'
English == <<69, 110, 103, 108, 105, 115, 104>>
Russian == <<82, 117, 115, 115, 105, 97, 110>>
Greek == <<71, 114, 101, 101, 107>>

\* Greek and Coptic, Greek Extended
GreekChars == (880..1023) \cup (7936..8191)

\* Cyrillic, Cyrillic Supplement, Cyrillic Extended-A and Extended-B
CyrillicChars == (1024..1279) \cup (1280..1327) \cup (11744..11775) \cup (42560..42655)

detectLangFromText(text) ==
    LET t == trim(text)
    IN  IF t = <<>> THEN "en"
        ELSE IF \E i \in 1..Len(t) : t[i] \in GreekChars THEN "el"
        ELSE IF \E i \in 1..Len(t) : t[i] \in CyrillicChars THEN "ru"
        ELSE "en"

langName(l) == IF l = "ru" THEN Russian ELSE IF l = "el" THEN Greek ELSE English

NotFoundRu ==
    <<1071, 32, 1085, 1077, 32, 1085, 1072, 1096, 1105, 1083, 32, 1101, 1090, 1086, 32, 1074,
    32, 1076, 1086, 1082, 1091, 1084, 1077, 1085, 1090, 1072, 1093, 46, 32, 1042, 1072, 1084,
    32, 1085, 1091, 1078, 1085, 1099, 32, 1094, 1077, 1085, 1099, 44, 32, 1072, 1076, 1088,
    1077, 1089, 44, 32, 1095, 1072, 1089, 1099, 32, 1088, 1072, 1073, 1086, 1090, 1099, 32,
    1080, 1083, 1080, 32, 1089, 1087, 1080, 1089, 1086, 1082, 32, 1091, 1089, 1083, 1091,
    1075, 63>>
NotFoundEl ==
    <<916, 949, 957, 32, 964, 959, 32, 946, 961, 942, 954, 945, 32, 963, 964, 945, 32, 941,
    947, 947, 961, 945, 966, 945, 46, 32, 920, 941, 955, 949, 964, 949, 32, 964, 953, 956,
    941, 962, 44, 32, 948, 953, 949, 973, 952, 965, 957, 963, 951, 44, 32, 969, 961, 940, 961,
    953, 959, 32, 942, 32, 965, 960, 951, 961, 949, 963, 943, 949, 962, 59>>
NotFoundEn ==
    <<73, 32, 99, 111, 117, 108, 100, 110, 39, 116, 32, 102, 105, 110, 100, 32, 116, 104, 105,
    115, 32, 105, 110, 32, 116, 104, 101, 32, 112, 114, 111, 118, 105, 100, 101, 100, 32, 100,
    111, 99, 117, 109, 101, 110, 116, 115, 46, 32, 68, 111, 32, 121, 111, 117, 32, 119, 97,
    110, 116, 32, 112, 114, 105, 99, 101, 115, 44, 32, 108, 111, 99, 97, 116, 105, 111, 110,
    44, 32, 111, 112, 101, 110, 105, 110, 103, 32, 104, 111, 117, 114, 115, 44, 32, 111, 114,
    32, 115, 101, 114, 118, 105, 99, 101, 115, 63>>

notFoundMessage(l) == IF l = "ru" THEN NotFoundRu ELSE IF l = "el" THEN NotFoundEl ELSE NotFoundEn

\* topK of the tool's call of searchDocs
ToolTopK == 3

\* `Source: ${r.title} — ${r.sourceFile}`
SourceLabel(r) ==
    <<83, 111, 117, 114, 99, 101, 58, 32>> \o r.title \o <<32, 8212, 32>> \o r.sourceFile

\* What execute returns for the language l, the searched query q and the results.
PayloadOf(l, q, res) ==
    IF Len(res) = 0
    THEN [found |-> FALSE, respondIn |-> langName(l), message |-> notFoundMessage(l)]
    ELSE [found |-> TRUE, respondIn |-> langName(l), effectiveQuery |-> q,
          passages |-> [i \in 1..Len(res) |->
                          [text |-> res[i].text, source |-> SourceLabel(res[i]),
                           chunkId |-> res[i].chunkId]]]

\* The folder the agent loads: empty, or the price list.
ToolListings == {<<>>, <<[name |-> PricingFile, isFile |-> TRUE, content |-> PricingText]>>}

\* The query argument of a call: "brake pads price", "zz"
ToolQueries == {BrakeQuery, <<122, 122>>}

\* The events: without a transcript, and with the transcripts "", " ", "hi ",
\* "Γεια", "Да", "ok Да", "Да Γ"
TranscriptEvents ==
    {[itemId |-> 1]} \cup
    {[itemId |-> 1, transcript |-> t] :
        t \in {<<>>, <<32>>, <<104, 105, 32>>, <<915, 949, 953, 945>>,
               <<1044, 1072>>, <<111, 107, 32, 1044, 1072>>,
               <<1044, 1072, 32, 915>>}}

\* What translateToEnglish(text) can resolve to: the service's answer, or text when
\* the answer has no content.
TranslationsOf(text) == ToolQueries \cup {text}

InitTool ==
    /\ pc = "start"
    /\ folder \in ToolListings
    /\ index = NoIndex
    /\ call = NoCall
    /\ results = <<>>
    /\ scored = 0
    /\ NormIdle
    /\ ChunkerIdle
    /\ ToolIdle

\* rtSession.on('input_speech_transcription_completed', ...): one event is handled.
Transcription ==
    /\ pc \in {"ready", "waiting", "translating", "replied", "rejected"}
    /\ \E e \in TranscriptEvents :
          IF "transcript" \notin DOMAIN e \/ e.transcript = <<>>
          THEN lastUserLang' = lastUserLang
          ELSE LET transcript == trim(e.transcript)
               IN  IF transcript = <<>>
                   THEN lastUserLang' = lastUserLang
                   ELSE lastUserLang' = detectLangFromText(transcript)
    /\ UNCHANGED <<pc, toolQuery, userLang, translated, payload, agentVars,
                   normVars, chunkerVars>>

\* execute from const results = searchDocs(...) to its return, for the language l
\* and the searched query q.
SearchAndReply(l, q) ==
    LET run == SearchRun([index |-> index, query |-> q, topK |-> ToolTopK])
    IN  /\ call' = [query |-> q, topK |-> ToolTopK]
        /\ results' = run.returned
        /\ scored' = run.scored
        /\ index' = run.index
        /\ payload' = PayloadOf(l, q, run.returned)
        /\ pc' = "replied"

\* execute from const userLang = lastUserLang to its next await or its return.
ReadLanguage(query) ==
    /\ userLang' = lastUserLang
    /\ IF lastUserLang = "en"
       THEN /\ translated' = FALSE
            /\ SearchAndReply(lastUserLang, query)
       ELSE /\ translated' = TRUE
            /\ pc' = "translating"
            /\ UNCHANGED <<call, results, scored, index, payload>>

\* The model calls the tool: execute runs to its first await or to its return.
ToolCall ==
    /\ pc \in {"ready", "replied", "rejected"}
    /\ \E query \in ToolQueries :
          /\ toolQuery' = query
          /\ IF lastUserLang = Undefined
             THEN /\ pc' = "waiting"
                  /\ translated' = FALSE
                  /\ UNCHANGED <<userLang, call, results, scored, index, payload>>
             ELSE ReadLanguage(query)
    /\ UNCHANGED <<folder, lastUserLang, normVars, chunkerVars>>

\* The 500 ms timer fires and execute resumes.
WaitEnds ==
    /\ pc = "waiting"
    /\ ReadLanguage(toolQuery)
    /\ UNCHANGED <<folder, lastUserLang, toolQuery, normVars, chunkerVars>>

\* translateToEnglish resolves and execute resumes with q.
TranslationReturns ==
    /\ pc = "translating"
    /\ \E q \in TranslationsOf(toolQuery) : SearchAndReply(userLang, q)
    /\ UNCHANGED <<folder, lastUserLang, toolQuery, userLang, translated,
                   normVars, chunkerVars>>

\* translateToEnglish throws (fetch fails, or the status is not ok): execute rejects.
TranslationFails ==
    /\ pc = "translating"
    /\ pc' = "rejected"
    /\ UNCHANGED <<toolVars, agentVars, normVars, chunkerVars>>

NextTool ==
    \/ Load
    \/ LoadFails
    \/ Transcription
    \/ ToolCall
    \/ WaitEnds
    \/ TranslationReturns
    \/ TranslationFails

SpecTool == InitTool /\ [][NextTool]_vars

\* C22: under every interleaving of the transcription event with a call of the
\* tool, a payload whose respondIn is "English" comes from a call that searched the
\* query as given and did not call the translation service, the call whose wait
\* ended with no language set included.
EnglishReplySearchedAsGiven ==
    (pc = "replied" /\ payload.respondIn = English)
        => (~translated /\ call.query = toolQuery)

====
